---- MODULE Spec2Model ----
(***************************************************************************)
(* Letter guessing vocabulary game (src/letter_guessing_game.py).          *)
(*                                                                         *)
(* The program is one synchronous session: main() builds a                 *)
(* LetterGuessingGame (which loads the high scores), run() loops over the  *)
(* menu, play_game() plays ROUNDS_PER_GAME rounds of play_round() and then *)
(* decides whether the final score enters the high-score list.  The only   *)
(* suspension points are the blocking input() reads; each action below is  *)
(* the code that runs from one input() read to the next.                   *)
(*                                                                         *)
(* A line of input is a sequence of one-character strings, so that         *)
(* str.strip() and str.upper() are modelled by what they do.               *)
(***************************************************************************)
EXTENDS Integers, Sequences, FiniteSets, TLC

\* ------------------------------------------------------------------ constants

MAX_ATTEMPTS == 6

ROUNDS_PER_GAME == 10

\* self.high_scores[:10] in add_high_score
TOP_SCORES == 10

\* bonus = attempts_left * 5
BONUS_PER_ATTEMPT == 5

\* ------------------------------------------------------------------ bounds

\* Wrong letters the model's player enters in one game (total_attempts -
\* correct_guesses); MAX_ATTEMPTS of them are needed to lose a round.
MaxWrongGuesses == 6

\* Letters the model's player enters in a game that is not the first of its
\* process: the first game is played to its end, a later one is begun.
MaxReplayGuesses == 1

\* Letters of the word the model's player chooses among at a prompt.
Lookahead == 2

\* Rounds of a game, from the first on, in which random.choice may return any
\* word of the tier; in the later rounds it returns the tier's first word.
MaxMixedRounds == 1

\* ------------------------------------------------------------------ text

Lower == <<"a","b","c","d","e","f","g","h","i","j","k","l","m",
           "n","o","p","q","r","s","t","u","v","w","x","y","z">>

Upper == <<"A","B","C","D","E","F","G","H","I","J","K","L","M",
           "N","O","P","Q","R","S","T","U","V","W","X","Y","Z">>

Whitespace == {" ", "\t"}

Range(s) == {s[i] : i \in 1..Len(s)}

LowerChars == Range(Lower)

UpperChars == Range(Upper)

\* The upper-case letter of each lower-case letter, and the reverse.
UpperOf == [c \in LowerChars |-> Upper[CHOOSE i \in 1..Len(Lower) : Lower[i] = c]]

\* str.upper(), one character
UpperChar(c) == IF c \in LowerChars THEN UpperOf[c] ELSE c

\* str.upper()
ToUpper(s) == [i \in 1..Len(s) |-> UpperChar(s[i])]

RECURSIVE LStrip(_)
LStrip(s) ==
    IF s # <<>> /\ Head(s) \in Whitespace THEN LStrip(Tail(s)) ELSE s

RECURSIVE RStrip(_)
RStrip(s) ==
    IF s # <<>> /\ s[Len(s)] \in Whitespace
    THEN RStrip(SubSeq(s, 1, Len(s) - 1))
    ELSE s

\* str.strip()
Strip(s) == RStrip(LStrip(s))

\* str.isalpha() of a non-empty string, over the characters the model types
IsAlpha(s) == s # <<>> /\ \A i \in 1..Len(s) : s[i] \in LowerChars \/ s[i] \in UpperChars

\* ------------------------------------------------------------------ word bank

\* WORD_DATABASE, the words of each tier the model keeps: "cat" and "dog",
\* "successful", "entrepreneur".
WORD_DATABASE ==
    [easy   |-> {<<"c","a","t">>, <<"d","o","g">>},
     medium |-> {<<"s","u","c","c","e","s","s","f","u","l">>},
     hard   |-> {<<"e","n","t","r","e","p","r","e","n","e","u","r">>}]

\* The word of each tier drawn in the rounds after the first MaxMixedRounds.
FirstWord ==
    [easy   |-> <<"c","a","t">>,
     medium |-> <<"s","u","c","c","e","s","s","f","u","l">>,
     hard   |-> <<"e","n","t","r","e","p","r","e","n","e","u","r">>]

\* get_random_word: random.choice(WORD_DATABASE[difficulty]), in round r
GetRandomWord(d, r) == IF r < MaxMixedRounds THEN WORD_DATABASE[d] ELSE {FirstWord[d]}

\* points = {"easy": 10, "medium": 20, "hard": 30}[difficulty]
BasePoints(d) == [easy |-> 10, medium |-> 20, hard |-> 30][d]

\* TotalPoints without the bonus.
TotalPointsNoBonus(d, attempts) == BasePoints(d)

\* TotalPoints with the bonus paid for the attempts used up.
TotalPointsUsed(d, attempts) == BasePoints(d) + (MAX_ATTEMPTS - attempts) * BONUS_PER_ATTEMPT

\* total_points = points + attempts_left * 5
TotalPoints(d, attempts) == BasePoints(d) + attempts * BONUS_PER_ATTEMPT

\* IsWordComplete by counting: as many guessed letters as the word is long.
IsWordCompleteByCount(w, guessed) == Cardinality(guessed) = Len(w)

\* is_word_complete: all(letter in guessed_letters for letter in word)
IsWordComplete(w, guessed) == \A i \in 1..Len(w) : w[i] \in guessed

\* AttemptsLeftAfter charging every accepted guess.
AttemptsLeftAfterAny(attempts, hit) == attempts - 1

\* if guess in word: ... else: attempts_left -= 1
AttemptsLeftAfter(attempts, hit) == IF hit THEN attempts ELSE attempts - 1

\* LoopContinues never ending the round for want of attempts.
LoopContinuesAlways(attempts) == TRUE

\* LoopContinues letting the round go on with no attempt left.
LoopContinuesAtZero(attempts) == attempts >= 0

\* while attempts_left > 0
LoopContinues(attempts) == attempts > 0

\* self.total_attempts += 1, for an accepted guess
TotalAttemptsAfter(n, hit) == n + 1

\* CorrectGuessesAfter counting every accepted guess.
CorrectGuessesAfterAny(n, hit) == n + 1

\* if guess in word: self.correct_guesses += 1, for an accepted guess
CorrectGuessesAfter(n, hit) == IF hit THEN n + 1 ELSE n

\* MoreRounds with the range one short.
MoreRoundsShort(r) == r + 1 < ROUNDS_PER_GAME - 1

\* for self.round in range(ROUNDS_PER_GAME): another round follows round r
MoreRounds(r) == r + 1 < ROUNDS_PER_GAME

\* ------------------------------------------------------------------ ledger

Entry(n, s, d, t) == [name |-> n, score |-> s, difficulty |-> d, date |-> t]

\* list.sort(key=score, reverse=True) is stable: an element goes behind every
\* element whose score is at least its own.
RECURSIVE InsertDesc(_, _)
InsertDesc(sorted, e) ==
    IF sorted = <<>> THEN <<e>>
    ELSE IF Head(sorted).score >= e.score
         THEN <<Head(sorted)>> \o InsertDesc(Tail(sorted), e)
         ELSE <<e>> \o sorted

RECURSIVE SortDesc(_)
SortDesc(s) ==
    IF s = <<>> THEN <<>>
    ELSE InsertDesc(SortDesc(SubSeq(s, 1, Len(s) - 1)), s[Len(s)])

\* self.high_scores[:10]
Truncate(s) == SubSeq(s, 1, IF Len(s) < TOP_SCORES THEN Len(s) ELSE TOP_SCORES)

\* AddHighScore putting the new entry above the entries of its score.
AddHighScoreTiesFirst(hs, e) ==
    LET k == Cardinality({i \in 1..Len(hs) : hs[i].score > e.score})
    IN  Truncate(SubSeq(hs, 1, k) \o <<e>> \o SubSeq(hs, k + 1, Len(hs)))

\* AddHighScore without the sort.
AddHighScoreUnsorted(hs, e) == Truncate(Append(hs, e))

\* add_high_score, the in-memory list: append, sort, keep the top 10
AddHighScore(hs, e) == Truncate(SortDesc(Append(hs, e)))

\* Qualifies admitting every score.
QualifiesAlways(hs, s) == TRUE

\* Qualifies admitting a score equal to the lowest.
QualifiesOnTie(hs, s) == (hs # <<>> /\ s >= hs[Len(hs)].score) \/ hs = <<>>

\* play_game's check:
\*   self.high_scores and self.score > self.high_scores[-1]['score']
\*   or not self.high_scores
Qualifies(hs, s) == (hs # <<>> /\ s > hs[Len(hs)].score) \/ hs = <<>>

\* ------------------------------------------------------------------ store

\* The persisted file letter_game_scores.json: absent, present but not
\* openable, not valid JSON, not valid UTF-8, a JSON value that is no list
\* (an object), or a list of score entries.
StoreKinds == {"missing", "unreadable", "badjson", "badutf8", "object", "list"}

Store(k, items) == [kind |-> k, items |-> items]

Bob(s, d) == Entry(<<"B","o","b">>, s, d, 0)

\* Lists an earlier session wrote: three entries, and a full list of ten.
Stored3 == <<Bob(500, "medium"), Bob(400, "easy"), Bob(400, "easy")>>

Stored10 ==
    <<Bob(600, "hard"), Bob(600, "hard"), Bob(570, "hard"), Bob(500, "medium"),
      Bob(500, "medium"), Bob(470, "medium"), Bob(400, "easy"), Bob(400, "easy"),
      Bob(400, "easy"), Bob(400, "easy")>>

\* No file yet, or a file an earlier session wrote.
InitialStores == {Store("missing", <<>>), Store("list", Stored3), Store("list", Stored10)}

\* Any file.
AnyStores == {Store(k, <<>>) : k \in StoreKinds \ {"list"}} \cup InitialStores

\* load_high_scores: os.path.exists, open, json.load; JSONDecodeError and
\* IOError are caught and give [].  UnicodeDecodeError is neither, so it
\* leaves the function; any JSON value parsed is returned as it is.
LoadHighScores(st) ==
    CASE st.kind = "missing"    -> [raised |-> FALSE, type |-> "list", list |-> <<>>]
      [] st.kind = "unreadable" -> [raised |-> FALSE, type |-> "list", list |-> <<>>]
      [] st.kind = "badjson"    -> [raised |-> FALSE, type |-> "list", list |-> <<>>]
      [] st.kind = "badutf8"    -> [raised |-> TRUE,  type |-> "list", list |-> <<>>]
      [] st.kind = "object"     -> [raised |-> FALSE, type |-> "object", list |-> <<>>]
      [] st.kind = "list"       -> [raised |-> FALSE, type |-> "list", list |-> st.items]

\* save_high_scores: open(..., 'w') and json.dump, IOError swallowed.  The
\* write succeeds, or open fails and the file is as before, or the dump fails
\* after open truncated the file.
SaveOutcomes == {"written", "open_failed", "dump_failed"}

SaveHighScores(st, hs, outcome) ==
    CASE outcome = "written"     -> Store("list", hs)
      [] outcome = "open_failed" -> st
      [] outcome = "dump_failed" -> Store("badjson", <<>>)

\* SaveRaises letting the IOError of a failed write through.
SaveRaisesOnFailure(outcome) == outcome # "written"

\* save_high_scores: except IOError: pass
SaveRaises(outcome) == FALSE

\* ------------------------------------------------------------------ state

VARIABLES
    pc,               \* the input() read the session is blocked at, or "boot"
    status,           \* "running", or how main() ended
    store,            \* the persisted score file
    high_scores,      \* self.high_scores when it is a list
    hs_type,          \* "list", or "object" when json.load gave another value
    games,            \* play_game calls so far; the clock of the date field
    difficulty,       \* play_game's local
    player_name,      \* play_game's local
    score,            \* self.score
    round,            \* self.round
    words_learned,    \* self.words_learned
    started,          \* self.start_time is not None
    total_attempts,   \* self.total_attempts
    correct_guesses,  \* self.correct_guesses
    word_data,        \* play_round's word_data['word']; <<>> outside a round
    word,             \* play_round's local: word_data['word'].upper()
    correct_letters,  \* play_round's local
    wrong_letters,    \* play_round's local
    attempts_left,    \* play_round's local
    returned,         \* what the current play_round call returned, "none" until it does
    rounds_played,    \* play_round calls of this game that have returned
    hs_at_start,      \* self.high_scores when play_game was entered
    store_at_start    \* the file when play_game was entered

ledger == <<store, high_scores, hs_type>>

session == <<score, round, words_learned, started, total_attempts, correct_guesses>>

gameLocals == <<difficulty, player_name>>

roundLocals == <<word_data, word, correct_letters, wrong_letters, attempts_left>>

history == <<games, returned, rounds_played, hs_at_start, store_at_start>>

vars == <<pc, status, ledger, session, gameLocals, roundLocals, history>>

\* No play_round frame: before the first round, and after play_game's frame
\* is gone (it returned, or an exception unwound it).
NoRound ==
    /\ word_data' = <<>>
    /\ word' = <<>>
    /\ correct_letters' = {}
    /\ wrong_letters' = {}
    /\ attempts_left' = 0

NoGame == difficulty' = "none" /\ player_name' = <<>> /\ NoRound

\* LetterGuessingGame.__init__ has not run yet; main() is about to call it.
Init ==
    /\ pc = "boot"
    /\ status = "running"
    /\ store \in InitialStores
    /\ high_scores = <<>>
    /\ hs_type = "list"
    /\ games = 0
    /\ difficulty = "none"
    /\ player_name = <<>>
    /\ score = 0
    /\ round = 0
    /\ words_learned = <<>>
    /\ started = FALSE
    /\ total_attempts = 0
    /\ correct_guesses = 0
    /\ word_data = <<>>
    /\ word = <<>>
    /\ correct_letters = {}
    /\ wrong_letters = {}
    /\ attempts_left = 0
    /\ returned = "none"
    /\ rounds_played = 0
    /\ hs_at_start = <<>>
    /\ store_at_start = store

\* ------------------------------------------------------------------ input

\* Lines typed at the menu and at the difficulty prompt.
ChoiceLines == {<<"1">>, <<"2">>, <<"3">>, <<"4">>, <<" ", "1", " ">>, <<"7">>, <<>>}

\* Lines typed at the name prompt.
NameLines == {<<" ", "A", "l", "i", " ">>}

\* Wrong letters, in the order the model's player tries them (none occurs in
\* a word of the model's word bank).
WrongPool == <<"x", "y", "z", "q", "w", "v">>

Guessed == correct_letters \cup wrong_letters

\* The model's player still enters new letters: always in the first game of
\* the process, MaxReplayGuesses of them in a later one.
StillGuessing == games = 1 \/ total_attempts < MaxReplayGuesses

\* The next letter of WrongPool not tried in this round, while the player
\* has wrong guesses left in this game.
NextWrong ==
    IF ~StillGuessing \/ total_attempts - correct_guesses >= MaxWrongGuesses THEN {}
    ELSE LET open == {i \in 1..Len(WrongPool) : UpperChar(WrongPool[i]) \notin Guessed}
         IN  {WrongPool[i] : i \in {j \in open : \A k \in open : j <= k}}

\* The letters of the word not guessed yet that the model's player may try
\* next: the first Lookahead of them, in the order they occur in the word.
NextCorrect ==
    LET open == {i \in 1..Len(word) :
                    /\ word[i] \notin correct_letters
                    /\ \A j \in 1..(i - 1) : word[j] # word[i]}
    IN  IF ~StillGuessing THEN {}
        ELSE {word_data[i] : i \in {j \in open :
                                     Cardinality({k \in open : k < j}) < Lookahead}}

\* Letters the model's player enters a second time: the first letter of the
\* word and the first letter of WrongPool, once they have been guessed.
Retyped == Guessed \cap (Range(SubSeq(word, 1, 1)) \cup {UpperChar(WrongPool[1])})

\* Lines typed at the letter prompt: a letter of the word in lower case, the
\* next wrong letter in padded upper case, a letter guessed before; and a
\* blank line, a digit, two letters.
GuessLines ==
    {<<c>> : c \in NextCorrect}
        \cup {<<" ", UpperChar(c), " ">> : c \in NextWrong}
        \cup {<<c>> : c \in Retyped}
        \cup {<<" ">>, <<"1">>, <<"a", "b">>}

\* input(...).strip().upper()
Normalise(line) == ToUpper(Strip(line))

\* Accepted without the check for letters guessed before.
AcceptedAgain(g, correct, wrong) == Len(g) = 1 /\ IsAlpha(g)

\* len(guess) == 1 and guess.isalpha(), and not guessed before
Accepted(g, correct, wrong) ==
    /\ Len(g) = 1
    /\ IsAlpha(g)
    /\ g[1] \notin correct
    /\ g[1] \notin wrong

\* ------------------------------------------------------------------ start-up and menu

\* main(): game = LetterGuessingGame(), whose __init__ loads the high
\* scores; an exception leaves through "except Exception" and sys.exit(1).
Construct ==
    /\ pc = "boot" /\ status = "running"
    /\ LET r == LoadHighScores(store)
       IN  IF r.raised
           THEN /\ status' = "crashed"
                /\ UNCHANGED <<pc, high_scores, hs_type>>
           ELSE /\ pc' = "menu"
                /\ high_scores' = r.list
                /\ hs_type' = r.type
                /\ status' = status
    /\ UNCHANGED <<store, session, gameLocals, roundLocals, history>>

AtMenu(choice) ==
    /\ pc = "menu" /\ status = "running"
    /\ \E line \in ChoiceLines : Strip(line) = choice

\* run(): choice "1" calls play_game, which shows the difficulty prompt.
MenuStart ==
    /\ AtMenu(<<"1">>)
    /\ pc' = "difficulty"
    /\ games' = games + 1
    /\ hs_at_start' = high_scores
    /\ store_at_start' = store
    /\ UNCHANGED <<status, ledger, session, gameLocals, roundLocals, returned, rounds_played>>

\* run(): choice "2" calls display_high_scores; a non-empty JSON object is
\* truthy and cannot be sliced, so the listing raises.
MenuScores ==
    /\ AtMenu(<<"2">>)
    /\ IF hs_type = "object"
       THEN status' = "crashed" /\ pc' = pc
       ELSE status' = status /\ pc' = "scores"
    /\ UNCHANGED <<ledger, session, gameLocals, roundLocals, history>>

\* run(): choice "3" calls display_instructions.
MenuInstructions ==
    /\ AtMenu(<<"3">>)
    /\ pc' = "instructions"
    /\ UNCHANGED <<status, ledger, session, gameLocals, roundLocals, history>>

\* run(): choice "4" breaks the loop and main() returns.
MenuExit ==
    /\ AtMenu(<<"4">>)
    /\ status' = "exited"
    /\ UNCHANGED <<pc, ledger, session, gameLocals, roundLocals, history>>

\* run(): any other choice prints a message and shows the menu again.
MenuInvalid ==
    /\ pc = "menu" /\ status = "running"
    /\ \E line \in ChoiceLines : Strip(line) \notin {<<"1">>, <<"2">>, <<"3">>, <<"4">>}
    /\ UNCHANGED vars

\* display_high_scores / display_instructions: input() and back to the menu.
Dismiss ==
    /\ pc \in {"scores", "instructions"} /\ status = "running"
    /\ pc' = "menu"
    /\ UNCHANGED <<status, ledger, session, gameLocals, roundLocals, history>>

\* ------------------------------------------------------------------ play_game

DifficultyOf(choice) ==
    CASE choice = <<"1">> -> "easy"
      [] choice = <<"2">> -> "medium"
      [] choice = <<"3">> -> "hard"
      [] OTHER -> "none"

\* get_difficulty: a valid choice returns the tier and play_game asks the name.
ChooseDifficulty ==
    /\ pc = "difficulty" /\ status = "running"
    /\ \E line \in ChoiceLines :
          /\ DifficultyOf(Strip(line)) # "none"
          /\ difficulty' = DifficultyOf(Strip(line))
    /\ pc' = "name"
    /\ UNCHANGED <<status, ledger, session, player_name, roundLocals, history>>

\* get_difficulty: any other choice asks again.
DifficultyInvalid ==
    /\ pc = "difficulty" /\ status = "running"
    /\ \E line \in ChoiceLines : DifficultyOf(Strip(line)) = "none"
    /\ UNCHANGED vars

\* StartRound keeping the wrong letters of the round before.
StartRoundKeepingWrong ==
    /\ word_data' \in GetRandomWord(difficulty', round')
    /\ word' = ToUpper(word_data')
    /\ correct_letters' = {}
    /\ wrong_letters' = wrong_letters
    /\ attempts_left' = MAX_ATTEMPTS
    /\ returned' = "none"

\* play_round's first lines: draw the word, empty sets, all attempts.
StartRound ==
    /\ word_data' \in GetRandomWord(difficulty', round')
    /\ word' = ToUpper(word_data')
    /\ correct_letters' = {}
    /\ wrong_letters' = {}
    /\ attempts_left' = MAX_ATTEMPTS
    /\ returned' = "none"

\* ResetSession keeping the score of the game before.
ResetSessionKeepingScore ==
    /\ score' = score
    /\ words_learned' = <<>>
    /\ started' = TRUE
    /\ total_attempts' = 0
    /\ correct_guesses' = 0

\* play_game: self.score = 0 ... self.correct_guesses = 0
ResetSession ==
    /\ score' = 0
    /\ words_learned' = <<>>
    /\ started' = TRUE
    /\ total_attempts' = 0
    /\ correct_guesses' = 0

\* play_game: the name is read, the session is reset and the first round
\* starts, up to its letter prompt.
EnterName ==
    /\ pc = "name" /\ status = "running"
    /\ \E line \in NameLines : player_name' = Strip(line)
    /\ ResetSession
    /\ round' = 0
    /\ difficulty' = difficulty
    /\ StartRound
    /\ rounds_played' = 0
    /\ pc' = "guess"
    /\ UNCHANGED <<status, ledger, games, hs_at_start, store_at_start>>

\* play_game after the last round: display_final_stats, the high-score check
\* and add_high_score, up to the final prompt.  An object in place of the list
\* has no [-1]: the check raises and main() exits with status 1.
GameOver(finalScore) ==
    IF hs_type = "object"
    THEN /\ status' = "crashed"
         /\ pc' = "summary"
         /\ UNCHANGED ledger
    ELSE /\ hs_type' = hs_type
         /\ IF Qualifies(high_scores, finalScore)
            THEN /\ high_scores' =
                      AddHighScore(high_scores,
                                   Entry(player_name, finalScore, difficulty, games))
                 /\ \E outcome \in SaveOutcomes :
                       /\ store' = SaveHighScores(store, high_scores', outcome)
                       /\ IF SaveRaises(outcome)
                          THEN status' = "crashed" /\ pc' = "summary"
                          ELSE status' = status /\ pc' = "final"
            ELSE /\ status' = status
                 /\ pc' = "final"
                 /\ UNCHANGED <<high_scores, store>>

\* play_round from one letter prompt to the next read: validate the line,
\* count the guess, update the letter sets; on completion or on the last
\* attempt return to play_game, which goes to the next prompt.
ReadGuess(g) ==
    LET acc   == Accepted(g, correct_letters, wrong_letters)
        hit   == acc /\ g[1] \in Range(word)
        miss  == acc /\ g[1] \notin Range(word)
        nc    == IF hit THEN correct_letters \cup {g[1]} ELSE correct_letters
        nw    == IF miss THEN wrong_letters \cup {g[1]} ELSE wrong_letters
        na    == IF acc THEN AttemptsLeftAfter(attempts_left, hit) ELSE attempts_left
        won   == hit /\ IsWordComplete(word, nc)
        lost  == acc /\ ~won /\ ~LoopContinues(na)
        ns    == IF won THEN score + TotalPoints(difficulty, attempts_left) ELSE score
    IN  /\ total_attempts' =
              IF acc THEN TotalAttemptsAfter(total_attempts, hit) ELSE total_attempts
        /\ correct_guesses' =
              IF acc THEN CorrectGuessesAfter(correct_guesses, hit) ELSE correct_guesses
        /\ score' = ns
        /\ words_learned' = IF won THEN Append(words_learned, word_data) ELSE words_learned
        /\ returned' = IF won THEN "True" ELSE IF lost THEN "False" ELSE returned
        /\ rounds_played' = IF won \/ lost THEN rounds_played + 1 ELSE rounds_played
        /\ UNCHANGED <<round, started, gameLocals, games, hs_at_start, store_at_start>>
        /\ UNCHANGED <<word_data, word>>
        /\ correct_letters' = nc
        /\ wrong_letters' = nw
        /\ attempts_left' = na
        /\ IF won \/ lost
           THEN IF MoreRounds(round)
                THEN pc' = "between" /\ UNCHANGED <<status, ledger>>
                ELSE GameOver(ns)
           ELSE pc' = "guess" /\ UNCHANGED <<status, ledger>>

\* The line is no single new letter: message, and the prompt again.
GuessRejected ==
    /\ pc = "guess" /\ status = "running"
    /\ \E line \in GuessLines :
          /\ ~Accepted(Normalise(line), correct_letters, wrong_letters)
          /\ ReadGuess(Normalise(line))

\* The line is a single new letter.
GuessAccepted ==
    /\ pc = "guess" /\ status = "running"
    /\ \E line \in GuessLines :
          /\ Accepted(Normalise(line), correct_letters, wrong_letters)
          /\ ReadGuess(Normalise(line))

\* play_game between rounds: Enter, the loop variable advances and the next
\* play_round starts.
NextRound ==
    /\ pc = "between" /\ status = "running"
    /\ round' = round + 1
    /\ difficulty' = difficulty
    /\ StartRound
    /\ pc' = "guess"
    /\ UNCHANGED <<status, ledger, score, words_learned, started, total_attempts,
                   correct_guesses, player_name, games, rounds_played, hs_at_start,
                   store_at_start>>

\* play_game's last input(): Enter, and play_game returns to run().
FinalReturn ==
    /\ pc = "final" /\ status = "running"
    /\ pc' = "menu"
    /\ NoGame
    /\ UNCHANGED <<status, ledger, session, history>>

\* Ctrl-C at a blocking input(): KeyboardInterrupt unwinds to main(), which
\* prints a message and returns.
Interrupt ==
    /\ pc # "boot" /\ status = "running"
    /\ status' = "interrupted"
    /\ NoGame
    /\ UNCHANGED <<pc, ledger, session, history>>

\* ExitStatus treating the interrupt as an error.
ExitStatusStrict == IF status \in {"crashed", "interrupted"} THEN 1 ELSE 0

\* AccuracyFallback with the two branches of the conditional exchanged.
AccuracyFallbackInverted(attempts) == attempts > 0

\* display_final_stats: the accuracy is taken as 0 unless total_attempts > 0
AccuracyFallback(attempts) == ~(attempts > 0)

\* main()'s exit status: sys.exit(1) after an exception, 0 otherwise.
ExitStatus == IF status = "crashed" THEN 1 ELSE 0

Next ==
    \/ Construct
    \/ MenuStart
    \/ MenuScores
    \/ MenuInstructions
    \/ MenuExit
    \/ MenuInvalid
    \/ Dismiss
    \/ ChooseDifficulty
    \/ DifficultyInvalid
    \/ EnterName
    \/ GuessRejected
    \/ GuessAccepted
    \/ NextRound
    \/ FinalReturn
    \/ Interrupt

Spec == Init /\ [][Next]_vars

\* The same program started on any file.
InitAnyStore ==
    /\ pc = "boot"
    /\ status = "running"
    /\ store \in AnyStores
    /\ high_scores = <<>>
    /\ hs_type = "list"
    /\ games = 0
    /\ difficulty = "none"
    /\ player_name = <<>>
    /\ score = 0
    /\ round = 0
    /\ words_learned = <<>>
    /\ started = FALSE
    /\ total_attempts = 0
    /\ correct_guesses = 0
    /\ word_data = <<>>
    /\ word = <<>>
    /\ correct_letters = {}
    /\ wrong_letters = {}
    /\ attempts_left = 0
    /\ returned = "none"
    /\ rounds_played = 0
    /\ hs_at_start = <<>>
    /\ store_at_start = store

SpecStores == InitAnyStore /\ [][Next]_vars

\* The program started without a file, with a player who chooses the easy
\* tier and, in the first game of the process, goes on entering letters not
\* guessed yet at the letter prompt and presses Enter between the rounds.
InitNoFile == Init /\ store.kind = "missing"

NextLive ==
    \/ Construct
    \/ MenuStart
    \/ MenuScores
    \/ MenuInstructions
    \/ MenuExit
    \/ MenuInvalid
    \/ Dismiss
    \/ ChooseDifficulty /\ difficulty' = "easy"
    \/ DifficultyInvalid
    \/ EnterName
    \/ GuessRejected
    \/ GuessAccepted
    \/ NextRound
    \/ FinalReturn
    \/ Interrupt

SpecLive ==
    InitNoFile /\ [][NextLive]_vars /\ WF_vars(GuessAccepted) /\ WF_vars(NextRound)

\* ------------------------------------------------------------------ properties

\* C1: whenever the ledger held fewer than TOP_SCORES entries when the game
\* started, the game's score qualifies at the end of the game and its entry is
\* in the ledger, also when the ledger was not empty and the score is no
\* higher than the lowest stored one.
C1_FewerThanTenQualifies ==
    (pc = "final" /\ status = "running" /\ Len(hs_at_start) < TOP_SCORES)
        => \E i \in 1..Len(high_scores) :
              high_scores[i] = Entry(player_name, score, difficulty, games)

\* C2: once add_high_score has changed the ledger, the ledger holds at most
\* TOP_SCORES entries and they are in descending order of score.
C2_LedgerBoundedAndSorted ==
    (games > 0 /\ high_scores # hs_at_start)
        => /\ Len(high_scores) <= TOP_SCORES
           /\ \A i, j \in 1..Len(high_scores) :
                 i < j => high_scores[i].score >= high_scores[j].score

C2_Witness ==
    /\ pc = "final"
    /\ Len(hs_at_start) = TOP_SCORES
    /\ high_scores # hs_at_start
    /\ high_scores[1].name # player_name

\* C3: as soon as the letters accepted in a round contain every letter of the
\* word, wherever in the sequence they were entered, play_round has returned
\* success.
C3_CoveredWordWins ==
    (word # <<>> /\ Range(word) \subseteq Guessed) => returned = "True"

C3_Witness ==
    /\ returned = "True"
    /\ Range(word) \subseteq Guessed
    /\ Cardinality(wrong_letters) = MAX_ATTEMPTS - 1
    /\ Len(word) > Cardinality(Range(word))

\* C4: attempts_left stays between 0 and MAX_ATTEMPTS; a read within a round
\* changes it only together with one new letter, not in the word, joining
\* wrong_letters, and then by exactly one downwards; a guess that joins
\* correct_letters leaves it as it is.
C4_AttemptsLeft ==
    /\ [](attempts_left \in 0..MAX_ATTEMPTS)
    /\ [][(pc = "guess" /\ status = "running" /\ status' # "interrupted")
            => /\ attempts_left' # attempts_left
                  => /\ attempts_left' = attempts_left - 1
                     /\ correct_letters' = correct_letters
                     /\ \E x \in UpperChars :
                           /\ x \notin Guessed
                           /\ x \notin Range(word)
                           /\ wrong_letters' = wrong_letters \cup {x}
               /\ correct_letters' # correct_letters
                  => attempts_left' = attempts_left]_vars

C4_Witness ==
    /\ pc = "between"
    /\ attempts_left = 0
    /\ Cardinality(wrong_letters) = MAX_ATTEMPTS
    /\ correct_letters # {}

\* C5: a line that, stripped and upper-cased, is a letter already in
\* correct_letters or wrong_letters, a single character that is no letter, or
\* longer than one character leaves attempts_left, total_attempts,
\* correct_guesses, correct_letters, wrong_letters and score as they are, and
\* the letter prompt is shown again.
C5_RejectedInputChangesNothing ==
    [][(pc = "guess" /\ status = "running")
          => \A line \in GuessLines :
                LET g == Normalise(line)
                    repeated  == Len(g) = 1 /\ g[1] \in correct_letters \cup wrong_letters
                    nonLetter == Len(g) = 1 /\ g[1] \notin LowerChars \cup UpperChars
                    tooLong   == Len(g) > 1
                IN  ((repeated \/ nonLetter \/ tooLong) /\ ReadGuess(g))
                       => /\ UNCHANGED <<attempts_left, total_attempts, correct_guesses,
                                         correct_letters, wrong_letters, score>>
                          /\ pc' = "guess"]_vars

C5_Witness ==
    /\ pc = "guess" /\ status = "running"
    /\ correct_letters # {}
    /\ wrong_letters # {}
    /\ \E line \in GuessLines :
          /\ Len(Normalise(line)) = 1
          /\ Normalise(line)[1] \in wrong_letters

\* C6: the read that ends a round in success adds the tier's base points (10,
\* 20, 30) plus 5 for each attempt left to the score, the read that ends it in
\* failure adds nothing; CAT solved with C, A, T as the first round of an easy
\* game brings the score to 40.
C6_RoundPoints ==
    /\ [][(pc = "guess" /\ returned' = "True")
            => score' = score + attempts_left * 5
                          + (CASE difficulty = "easy" -> 10
                               [] difficulty = "medium" -> 20
                               [] difficulty = "hard" -> 30)]_vars
    /\ [][(pc = "guess" /\ returned' = "False") => score' = score]_vars
    /\ []((/\ round = 0 /\ returned = "True" /\ difficulty = "easy"
           /\ word = <<"C", "A", "T">> /\ wrong_letters = {})
            => score = 40)

C6_Witness ==
    /\ round = 0 /\ returned = "True" /\ difficulty = "easy"
    /\ word = <<"C", "A", "T">> /\ wrong_letters = {}
    /\ score = 40

\* C7: with TOP_SCORES entries in the ledger at the start of the game, a final
\* score equal to the lowest stored score leaves the ledger as it was, in
\* memory and in the file; the ledger changes only for a strictly greater
\* score.
C7_TieOnFullLedger ==
    (pc = "final" /\ Len(hs_at_start) = TOP_SCORES)
        => /\ score = hs_at_start[TOP_SCORES].score
              => high_scores = hs_at_start /\ store = store_at_start
           /\ high_scores # hs_at_start
              => score > hs_at_start[TOP_SCORES].score

C7_Witness ==
    /\ pc = "final"
    /\ Len(hs_at_start) = TOP_SCORES
    /\ score = hs_at_start[TOP_SCORES].score
    /\ high_scores = hs_at_start

\* C8: a game that reaches its final summary has played exactly
\* ROUNDS_PER_GAME rounds; after a failed round that is not the last the game
\* waits for the next round, which starts with a fresh word, empty letter sets
\* and MAX_ATTEMPTS attempts.
C8_TenRounds ==
    /\ [](pc \in {"final", "summary"}
            => rounds_played = ROUNDS_PER_GAME /\ round = ROUNDS_PER_GAME - 1)
    /\ []((returned = "False" /\ rounds_played < ROUNDS_PER_GAME) => pc = "between")
    /\ [][(pc = "between" /\ pc' = "guess")
            => /\ word_data' \in WORD_DATABASE[difficulty]
               /\ correct_letters' = {} /\ wrong_letters' = {}
               /\ attempts_left' = MAX_ATTEMPTS
               /\ rounds_played' = rounds_played
               /\ round' = rounds_played]_vars

C8_Witness ==
    /\ pc = "final"
    /\ rounds_played = ROUNDS_PER_GAME
    /\ Len(words_learned) = ROUNDS_PER_GAME - 1

\* C9: load_high_scores never raises and returns a list of entries, the empty
\* list whenever the file is missing, unreadable or does not hold a list.
C9_LoadNeverRaises ==
    /\ ~(pc = "boot" /\ status = "crashed")
    /\ pc # "boot" => hs_type = "list"
    /\ (pc = "menu" /\ games = 0 /\ store.kind # "list") => high_scores = <<>>

\* C10: an interrupt at a prompt of a game whose tenth round has not completed
\* leaves the ledger, in memory and in the file, as it was when the game
\* started, and the process exits with status 0; the file is written only
\* once all rounds of the game have completed.
C10_InterruptKeepsLedger ==
    /\ (status = "interrupted" /\ pc \in {"difficulty", "name", "guess", "between"})
          => /\ high_scores = hs_at_start
             /\ store = store_at_start
             /\ ExitStatus = 0
    /\ (games > 0 /\ (store # store_at_start \/ high_scores # hs_at_start))
          => rounds_played = ROUNDS_PER_GAME

C10_Witness ==
    /\ status = "interrupted"
    /\ pc = "guess"
    /\ rounds_played = ROUNDS_PER_GAME - 1
    /\ score > 0

C12_TiesKeepInsertionOrder ==
    (games > 0 /\ high_scores # hs_at_start)
        => LET n    == Len(high_scores)
               i    == CHOOSE k \in 1..n : high_scores[k].date = games
               rest == [k \in 1..(n - 1) |->
                           IF k < i THEN high_scores[k] ELSE high_scores[k + 1]]
           IN  /\ \A j \in 1..n :
                     (j # i /\ high_scores[j].score = high_scores[i].score) => j < i
               /\ rest = SubSeq(hs_at_start, 1, n - 1)

C12_Witness ==
    /\ pc = "final"
    /\ Len(hs_at_start) = TOP_SCORES
    /\ high_scores # hs_at_start
    /\ \E j \in 1..Len(high_scores) :
          high_scores[j].score = score /\ high_scores[j].date # games

\* C13: a read ends the round in success exactly when every letter of the
\* word is in correct_letters, and in failure exactly when attempts_left has
\* reached 0 with the word incomplete; otherwise the round goes on.  A failed
\* round has MAX_ATTEMPTS wrong letters and changes neither the score nor
\* words_learned; DOG with X, Y, Z, Q, W, V as the first round fails with
\* score 0.
C13_RoundEndsTwoWays ==
    /\ [][(pc = "guess" /\ status = "running" /\ status' # "interrupted")
            => /\ returned' = "True" <=> Range(word) \subseteq correct_letters'
               /\ returned' = "False"
                     <=> (attempts_left' = 0 /\ ~(Range(word) \subseteq correct_letters'))
               /\ returned' = "none" <=> pc' = "guess"
               /\ returned' \in {"none", "True", "False"}
               /\ returned' = "False"
                     => /\ Cardinality(wrong_letters') = MAX_ATTEMPTS
                        /\ score' = score
                        /\ words_learned' = words_learned]_vars
    /\ []((/\ round = 0
           /\ word = <<"D", "O", "G">>
           /\ wrong_letters = {"X", "Y", "Z", "Q", "W", "V"})
            => returned = "False" /\ score = 0 /\ words_learned = <<>>)

C13_Witness ==
    /\ round = 0
    /\ word = <<"D", "O", "G">>
    /\ correct_letters = {}
    /\ wrong_letters = {"X", "Y", "Z", "Q", "W", "V"}
    /\ returned = "False"
    /\ score = 0

\* C14: a read at the letter prompt raises total_attempts by the number of
\* letters it accepted (0 or 1) and correct_guesses by the number of letters
\* that joined correct_letters; no other step changes them, except the reset
\* at the start of a game; so 0 <= correct_guesses <= total_attempts.
C14_AttemptCounters ==
    /\ [](0 <= correct_guesses /\ correct_guesses <= total_attempts)
    /\ [][(pc = "guess" /\ status = "running" /\ status' # "interrupted")
            => /\ total_attempts' - total_attempts
                     = Cardinality(correct_letters' \cup wrong_letters')
                          - Cardinality(correct_letters \cup wrong_letters)
               /\ correct_guesses' - correct_guesses
                     = Cardinality(correct_letters') - Cardinality(correct_letters)
               /\ total_attempts' - total_attempts \in {0, 1}
               /\ correct_letters' \subseteq Range(word)]_vars
    /\ [][pc # "guess"
            => \/ UNCHANGED <<total_attempts, correct_guesses>>
               \/ pc = "name" /\ total_attempts' = 0 /\ correct_guesses' = 0]_vars

C14_Witness ==
    /\ pc = "guess"
    /\ round > 0
    /\ correct_guesses > 0
    /\ correct_guesses < total_attempts
    /\ total_attempts > Cardinality(correct_letters \cup wrong_letters)

\* C15: while a round's frame exists, correct_letters holds only letters of
\* the word, wrong_letters holds none, the two sets are disjoint, and
\* attempts_left = MAX_ATTEMPTS - |wrong_letters|.
C15_LetterSets ==
    word # <<>>
        => /\ correct_letters \subseteq Range(word)
           /\ wrong_letters \cap Range(word) = {}
           /\ correct_letters \cap wrong_letters = {}
           /\ attempts_left = MAX_ATTEMPTS - Cardinality(wrong_letters)

C15_Witness ==
    /\ pc = "guess"
    /\ round > 0
    /\ correct_letters # {}
    /\ Cardinality(wrong_letters) > 1
    /\ attempts_left = MAX_ATTEMPTS - Cardinality(wrong_letters)

\* C16: a round accepts at most (distinct letters of the word) +
\* MAX_ATTEMPTS - 1 letters, and at least one before it returns; with a player
\* who keeps entering new letters, every round of the first game returns and
\* the game reaches its summary, unless the session is interrupted.
C16_RoundTerminates ==
    /\ [](word # <<>>
            => Cardinality(Guessed) <= Cardinality(Range(word)) + MAX_ATTEMPTS - 1)
    /\ []((word # <<>> /\ returned # "none") => Cardinality(Guessed) >= 1)
    /\ (pc = "guess" /\ games = 1 /\ status = "running")
          ~> (returned # "none" \/ status # "running")
    /\ (pc \in {"guess", "between"} /\ games = 1 /\ status = "running")
          ~> (pc = "final" \/ status # "running")

C16_Witness ==
    /\ pc = "final"
    /\ returned = "True"
    /\ Cardinality(Guessed) = Cardinality(Range(word)) + MAX_ATTEMPTS - 1

\* C17: the read that ends a round in success finds attempts_left >= 1 and
\* adds between base + 5 and base + 5 * MAX_ATTEMPTS points (base 10, 20, 30);
\* the score is never negative, does not decrease within a game, and at the
\* summary is 0 or between base + 5 and ROUNDS_PER_GAME * (base + 5 *
\* MAX_ATTEMPTS).
C17_PointsRange ==
    /\ [][(pc = "guess" /\ returned' = "True")
            => LET base == CASE difficulty = "easy" -> 10
                             [] difficulty = "medium" -> 20
                             [] difficulty = "hard" -> 30
               IN  /\ attempts_left >= 1
                   /\ score' - score >= base + 5
                   /\ score' - score <= base + 5 * MAX_ATTEMPTS]_vars
    /\ [](score >= 0)
    /\ [][pc # "name" => score' >= score]_vars
    /\ []((pc \in {"final", "summary"} /\ status = "running")
            => LET base == CASE difficulty = "easy" -> 10
                             [] difficulty = "medium" -> 20
                             [] difficulty = "hard" -> 30
               IN  \/ score = 0
                   \/ /\ score >= base + 5
                      /\ score <= ROUNDS_PER_GAME * (base + 5 * MAX_ATTEMPTS))

C17_Witness ==
    /\ round = 0
    /\ difficulty = "medium"
    /\ returned = "True"
    /\ attempts_left = 1
    /\ score = 25

\* C18: when the check passed for the final score on the list the game
\* started with, the player's entry is in the list after add_high_score, which
\* holds at most TOP_SCORES entries.
C18_AnnouncedEntryPresent ==
    (pc = "final" /\ status = "running" /\ Qualifies(hs_at_start, score))
        => /\ Len(high_scores) <= TOP_SCORES
           /\ \E i \in 1..Len(high_scores) :
                 /\ high_scores[i].name = player_name
                 /\ high_scores[i].score = score
                 /\ high_scores[i].difficulty = difficulty
                 /\ high_scores[i].date = games

C18_Witness ==
    /\ pc = "final"
    /\ Len(hs_at_start) = TOP_SCORES
    /\ Qualifies(hs_at_start, score)
    /\ score < hs_at_start[6].score
    /\ high_scores[7].date = games

\* C19: the step from the name prompt to the first letter prompt sets score,
\* total_attempts and correct_guesses to 0 and words_learned to the empty
\* list, whatever an earlier game left, and keeps the list of high scores;
\* words_learned grows by the round's word on a successful round and not at
\* all otherwise.
C19_CleanSession ==
    /\ [][(pc = "name" /\ pc' = "guess")
            => /\ score' = 0
               /\ total_attempts' = 0
               /\ correct_guesses' = 0
               /\ words_learned' = <<>>
               /\ round' = 0
               /\ high_scores' = high_scores]_vars
    /\ [][(pc = "guess" /\ status = "running" /\ status' # "interrupted")
            => IF returned' = "True"
               THEN words_learned' = Append(words_learned, word_data)
               ELSE words_learned' = words_learned]_vars
    /\ [][pc \notin {"guess", "name"} => words_learned' = words_learned]_vars

C19_Witness ==
    /\ games = 2
    /\ pc = "guess"
    /\ score = 0
    /\ total_attempts = 0
    /\ words_learned = <<>>
    /\ \E i \in 1..Len(high_scores) :
          high_scores[i].date = 1 /\ high_scores[i].score > 0

\* C20: at the summary total_attempts is at least ROUNDS_PER_GAME, so
\* display_final_stats does not take the fallback, and correct_guesses /
\* total_attempts lies between 0 and 1.
C20_AccuracyDefined ==
    pc \in {"final", "summary"}
        => /\ total_attempts >= ROUNDS_PER_GAME
           /\ ~AccuracyFallback(total_attempts)
           /\ 0 <= correct_guesses * 100
           /\ correct_guesses * 100 <= 100 * total_attempts

C20_Witness ==
    /\ pc = "final"
    /\ difficulty = "easy"
    /\ correct_guesses < total_attempts
    /\ correct_guesses = 3 * ROUNDS_PER_GAME

====
